---- MODULE Spec2Model ----
(***************************************************************************)
(* Model of the One array backend of artichoke-backend                     *)
(* (extn/core/array/backend/fixed/one.rs) and of the owner that holds one   *)
(* boxed segment and applies the replacement lists a segment hands back.    *)
(*                                                                         *)
(* A segment is a record [tag, vals, n, kids]:                              *)
(*   tag   the representation (Empty, One, Two, Hole, Buffer, Chunked)      *)
(*   vals  the Value handles held directly (One, Two, Buffer)               *)
(*   n     the run length of a Hole                                         *)
(*   kids  the children of a Chunked                                        *)
(* Only One is translated from one.rs; the other representations are the    *)
(* collaborators of One and follow the data model table of the spec.        *)
(***************************************************************************)
EXTENDS Integers, Sequences, FiniteSets, TLC

\* ------------------------------------------------------------------ bounds
MaxIndex == 5       \* indices and start offsets range over 0..MaxIndex
MaxDrain == 3       \* drain counts range over 0..MaxDrain
MaxHole == 5        \* operand Holes have 0..MaxHole slots
MaxBuf == 5         \* operand Buffers hold 0..MaxBuf handles

\* ------------------------------------------------------------------ values
\* Value handles of the guest language; Nil is interp.convert(None::<Value>).
Values == {"a", "b", "c"}
Nil == "nil"

\* backend::buffer::BUFFER_INLINE_MAX.  One::concat only compares against it;
\* the model takes a small threshold so that operands on both sides of it are
\* within the bounds.
BUFFER_INLINE_MAX == 4

\* The Err(Box<dyn RubyException>) of a failed call.
GetErr == "err"

\* Option<Vec<Box<dyn ArrayType>>>
None == [some |-> FALSE, list |-> <<>>]
Some(list) == [some |-> TRUE, list |-> list]

\* ------------------------------------------------------------ constructors
fixed_empty == [tag |-> "Empty", vals |-> <<>>, n |-> 0, kids |-> <<>>]
fixed_one(elem) == [tag |-> "One", vals |-> <<elem>>, n |-> 0, kids |-> <<>>]
fixed_two(first, second) ==
    [tag |-> "Two", vals |-> <<first, second>>, n |-> 0, kids |-> <<>>]
fixed_hole(len) == [tag |-> "Hole", vals |-> <<>>, n |-> len, kids |-> <<>>]
Buffer_from(buffer) ==
    [tag |-> "Buffer", vals |-> buffer, n |-> 0, kids |-> <<>>]
Chunked(children) ==
    [tag |-> "Chunked", vals |-> <<>>, n |-> 0, kids |-> children]

\* An implementor of ArrayType whose get answers Err at the positions where
\* results holds GetErr, and Ok(results[i]) elsewhere.
Failing(results) ==
    [tag |-> "Failing", vals |-> results, n |-> 0, kids |-> <<>>]

\* One::new
One_new(elem) == fixed_one(elem)

\* One::box_clone boxing a One around a fresh nil instead of the held handle.
One_box_clone_nil(self) == fixed_one(Nil)

\* One::box_clone: a new box around a clone of the held handle.
One_box_clone(self) == fixed_one(self.vals[1])

\* One::len
One_len(self) == 1

\* One::get returning the held value without looking at the index.
One_get_any_index(self, index) == self.vals[1]

\* One::get
One_get(self, index) == IF index = 0 THEN self.vals[1] ELSE Nil

\* One::gc_mark with an empty body.
One_gc_mark_none(self) == <<>>

\* One::gc_mark, as the sequence of handles passed to interp.mark_value.
One_gc_mark(self) == <<self.vals[1]>>

\* One::real_children
One_real_children(self) == 1

\* One::is_empty answering for the empty segment.
One_is_empty_true(self) == TRUE

\* One::is_empty
One_is_empty(self) == FALSE

\* One::slice testing only the start offset.
One_slice_ignores_len(self, start, length) ==
    IF start = 0 THEN One_box_clone(self) ELSE fixed_empty

\* One::slice
One_slice(self, start, length) ==
    IF start = 0 /\ length > 0 THEN One_box_clone(self) ELSE fixed_empty

\* One::reverse answering with the empty segment.
One_reverse_empty(self) == fixed_empty

\* One::reverse
One_reverse(self) == One_box_clone(self)

\* ------------------------------------------------- dyn ArrayType dispatch
\* len() and get() of a boxed segment, by representation.
RECURSIVE len(_)
len(s) ==
    CASE s.tag = "Empty" -> 0
      [] s.tag = "One" -> One_len(s)
      [] s.tag = "Two" -> 2
      [] s.tag = "Hole" -> s.n
      [] s.tag = "Buffer" -> Len(s.vals)
      [] s.tag = "Failing" -> Len(s.vals)
      [] s.tag = "Chunked" ->
            IF s.kids = <<>> THEN 0
            ELSE len(Head(s.kids)) + len(Chunked(Tail(s.kids)))

\* get() resolving a Chunked index without rebasing it to the child.
RECURSIVE get_no_rebase(_, _)
get_no_rebase(s, index) ==
    CASE s.tag = "Empty" -> Nil
      [] s.tag = "One" -> One_get(s, index)
      [] s.tag = "Two" -> IF index < 2 THEN s.vals[index + 1] ELSE Nil
      [] s.tag = "Hole" -> Nil
      [] s.tag = "Buffer" ->
            IF index < Len(s.vals) THEN s.vals[index + 1] ELSE Nil
      [] s.tag = "Failing" ->
            IF index < Len(s.vals) THEN s.vals[index + 1] ELSE Nil
      [] s.tag = "Chunked" ->
            IF s.kids = <<>> THEN Nil
            ELSE IF index < len(Head(s.kids))
                 THEN get_no_rebase(Head(s.kids), index)
                 ELSE get_no_rebase(Chunked(Tail(s.kids)), index)

RECURSIVE get(_, _)
get(s, index) ==
    CASE s.tag = "Empty" -> Nil
      [] s.tag = "One" -> One_get(s, index)
      [] s.tag = "Two" -> IF index < 2 THEN s.vals[index + 1] ELSE Nil
      [] s.tag = "Hole" -> Nil
      [] s.tag = "Buffer" ->
            IF index < Len(s.vals) THEN s.vals[index + 1] ELSE Nil
      [] s.tag = "Failing" ->
            IF index < Len(s.vals) THEN s.vals[index + 1] ELSE Nil
      [] s.tag = "Chunked" ->
            IF s.kids = <<>> THEN Nil
            ELSE IF index < len(Head(s.kids))
                 THEN get(Head(s.kids), index)
                 ELSE get(Chunked(Tail(s.kids)), index - len(Head(s.kids)))

\* gc_mark() and real_children() of a boxed segment, by representation:
\* the handles passed to mark_value, in order, and their count.
RECURSIVE gc_mark(_)
gc_mark(s) ==
    CASE s.tag = "Empty" -> <<>>
      [] s.tag = "One" -> One_gc_mark(s)
      [] s.tag = "Two" -> s.vals
      [] s.tag = "Hole" -> <<>>
      [] s.tag = "Buffer" -> s.vals
      [] s.tag = "Failing" -> <<>>
      [] s.tag = "Chunked" ->
            IF s.kids = <<>> THEN <<>>
            ELSE gc_mark(Head(s.kids)) \o gc_mark(Chunked(Tail(s.kids)))

RECURSIVE real_children(_)
real_children(s) ==
    CASE s.tag = "Empty" -> 0
      [] s.tag = "One" -> One_real_children(s)
      [] s.tag = "Two" -> 2
      [] s.tag = "Hole" -> 0
      [] s.tag = "Buffer" -> Len(s.vals)
      [] s.tag = "Failing" -> 0
      [] s.tag = "Chunked" ->
            IF s.kids = <<>> THEN 0
            ELSE real_children(Head(s.kids))
                    + real_children(Chunked(Tail(s.kids)))

\* Whether s is or contains an operand whose get fails.
RECURSIVE HasFailing(_)
HasFailing(s) ==
    \/ s.tag = "Failing"
    \/ \E j \in 1..Len(s.kids) : HasFailing(s.kids[j])

\* ------------------------------------------------------------ One: mutators
\* Each mutator takes the segment and the caller's realloc out-parameter and
\* yields the segment after the call, the out-parameter after the call and
\* the value inside the returned Ok.
Unit == [n |-> 0, v |-> Nil]
Drained(n) == [n |-> n, v |-> Nil]
Outcome(self, realloc, ret) == [self |-> self, realloc |-> realloc, ret |-> ret]
Val(v) == [n |-> 0, v |-> v]
Failed == [n |-> 0, v |-> GetErr]

\* One::pop returning the value without announcing the smaller shape.
One_pop_no_realloc(self, realloc) ==
    Outcome(self, realloc, Val(self.vals[1]))

\* One::pop announcing an empty replacement list.
One_pop_empty_list(self, realloc) ==
    Outcome(self, Some(<<>>), Val(self.vals[1]))

\* One::pop returning nil instead of the held value.
One_pop_nil(self, realloc) ==
    Outcome(self, Some(<<fixed_empty>>), Val(Nil))

\* One::pop
One_pop(self, realloc) ==
    Outcome(self, Some(<<fixed_empty>>), Val(self.vals[1]))

\* One::set with the Hole sized by the index instead of the gap.
One_set_hole_index(self, index, elem, realloc) ==
    IF index = 0
    THEN Outcome(fixed_one(elem), realloc, Unit)
    ELSE IF index = 1
    THEN Outcome(self, Some(<<fixed_two(self.vals[1], elem)>>), Unit)
    ELSE Outcome(self,
                 Some(<<One_box_clone(self), fixed_hole(index),
                        fixed_one(elem)>>),
                 Unit)

\* One::set building the Two at index 1 in the wrong order.
One_set_two_swapped(self, index, elem, realloc) ==
    IF index = 0
    THEN Outcome(fixed_one(elem), realloc, Unit)
    ELSE IF index = 1
    THEN Outcome(self, Some(<<fixed_two(elem, self.vals[1])>>), Unit)
    ELSE Outcome(self,
                 Some(<<One_box_clone(self), fixed_hole(index - 1),
                        fixed_one(elem)>>),
                 Unit)

\* One::set answering index 0 with a replacement instead of writing in place.
One_set_always_realloc(self, index, elem, realloc) ==
    IF index = 0
    THEN Outcome(self, Some(<<fixed_one(elem)>>), Unit)
    ELSE IF index = 1
    THEN Outcome(self, Some(<<fixed_two(self.vals[1], elem)>>), Unit)
    ELSE Outcome(self,
                 Some(<<One_box_clone(self), fixed_hole(index - 1),
                        fixed_one(elem)>>),
                 Unit)

\* One::set
One_set(self, index, elem, realloc) ==
    IF index = 0
    THEN Outcome(fixed_one(elem), realloc, Unit)
    ELSE IF index = 1
    THEN Outcome(self, Some(<<fixed_two(self.vals[1], elem)>>), Unit)
    ELSE Outcome(self,
                 Some(<<One_box_clone(self), fixed_hole(index - 1),
                        fixed_one(elem)>>),
                 Unit)

\* One::set_with_drain returning the requested drain count unclamped.
One_set_with_drain_unclamped(self, start, drain, with, realloc) ==
    IF start = 0 /\ drain = 0
    THEN Outcome(self, Some(<<fixed_two(with, self.vals[1])>>), Drained(0))
    ELSE IF start = 0
    THEN Outcome(fixed_one(with), realloc, Drained(drain))
    ELSE IF start = 1
    THEN Outcome(self, Some(<<fixed_two(self.vals[1], with)>>), Drained(0))
    ELSE Outcome(self,
                 Some(<<One_box_clone(self), fixed_hole(start - 1),
                        fixed_one(with)>>),
                 Drained(0))

\* One::set_with_drain prepending behind the held value.
One_set_with_drain_swapped(self, start, drain, with, realloc) ==
    IF start = 0 /\ drain = 0
    THEN Outcome(self, Some(<<fixed_two(self.vals[1], with)>>), Drained(0))
    ELSE IF start = 0
    THEN Outcome(fixed_one(with), realloc, Drained(1))
    ELSE IF start = 1
    THEN Outcome(self, Some(<<fixed_two(self.vals[1], with)>>), Drained(0))
    ELSE Outcome(self,
                 Some(<<One_box_clone(self), fixed_hole(start - 1),
                        fixed_one(with)>>),
                 Drained(0))

\* One::set_with_drain padding with a Hole of `start` slots.
One_set_with_drain_hole_start(self, start, drain, with, realloc) ==
    IF start = 0 /\ drain = 0
    THEN Outcome(self, Some(<<fixed_two(with, self.vals[1])>>), Drained(0))
    ELSE IF start = 0
    THEN Outcome(fixed_one(with), realloc, Drained(1))
    ELSE IF start = 1
    THEN Outcome(self, Some(<<fixed_two(self.vals[1], with)>>), Drained(0))
    ELSE Outcome(self,
                 Some(<<One_box_clone(self), fixed_hole(start),
                        fixed_one(with)>>),
                 Drained(0))

\* One::set_with_drain writing in place and announcing a replacement too.
One_set_with_drain_both(self, start, drain, with, realloc) ==
    IF start = 0 /\ drain = 0
    THEN Outcome(self, Some(<<fixed_two(with, self.vals[1])>>), Drained(0))
    ELSE IF start = 0
    THEN Outcome(fixed_one(with), Some(<<fixed_one(with)>>), Drained(1))
    ELSE IF start = 1
    THEN Outcome(self, Some(<<fixed_two(self.vals[1], with)>>), Drained(0))
    ELSE Outcome(self,
                 Some(<<One_box_clone(self), fixed_hole(start - 1),
                        fixed_one(with)>>),
                 Drained(0))

\* One::set_with_drain without the in-place branch for start = 0.
One_set_with_drain_missing_overwrite(self, start, drain, with, realloc) ==
    IF start = 0 /\ drain = 0
    THEN Outcome(self, Some(<<fixed_two(with, self.vals[1])>>), Drained(0))
    ELSE IF start = 1
    THEN Outcome(self, Some(<<fixed_two(self.vals[1], with)>>), Drained(0))
    ELSE Outcome(self,
                 Some(<<One_box_clone(self), fixed_hole(start - 1),
                        fixed_one(with)>>),
                 Drained(0))

\* One::set_with_drain
One_set_with_drain(self, start, drain, with, realloc) ==
    IF start = 0 /\ drain = 0
    THEN Outcome(self, Some(<<fixed_two(with, self.vals[1])>>), Drained(0))
    ELSE IF start = 0
    THEN Outcome(fixed_one(with), realloc, Drained(1))
    ELSE IF start = 1
    THEN Outcome(self, Some(<<fixed_two(self.vals[1], with)>>), Drained(0))
    ELSE Outcome(self,
                 Some(<<One_box_clone(self), fixed_hole(start - 1),
                        fixed_one(with)>>),
                 Drained(0))

\* One::set_slice keeping the drained element behind `with`.
One_set_slice_keep_self(self, start, drain, with, realloc) ==
    IF start = 0 /\ drain = 0
    THEN Outcome(self, Some(<<with, One_box_clone(self)>>), Drained(0))
    ELSE IF start = 0
    THEN Outcome(self, Some(<<with, One_box_clone(self)>>), Drained(1))
    ELSE IF start = 1
    THEN Outcome(self, Some(<<One_box_clone(self), with>>), Drained(0))
    ELSE Outcome(self,
                 Some(<<One_box_clone(self), fixed_hole(start - 1), with>>),
                 Drained(0))

\* One::set_slice without the branch for start = 1.
One_set_slice_hole_at_one(self, start, drain, with, realloc) ==
    IF start = 0 /\ drain = 0
    THEN Outcome(self, Some(<<with, One_box_clone(self)>>), Drained(0))
    ELSE IF start = 0
    THEN Outcome(self, Some(<<with>>), Drained(1))
    ELSE Outcome(self,
                 Some(<<One_box_clone(self), fixed_hole(start - 1), with>>),
                 Drained(0))

\* One::set_slice
One_set_slice(self, start, drain, with, realloc) ==
    IF start = 0 /\ drain = 0
    THEN Outcome(self, Some(<<with, One_box_clone(self)>>), Drained(0))
    ELSE IF start = 0
    THEN Outcome(self, Some(<<with>>), Drained(1))
    ELSE IF start = 1
    THEN Outcome(self, Some(<<One_box_clone(self), with>>), Drained(0))
    ELSE Outcome(self,
                 Some(<<One_box_clone(self), fixed_hole(start - 1), with>>),
                 Drained(0))

\* One::concat without the push of the held value into the buffer.
One_concat_no_self(self, other, realloc) ==
    IF len(other) = 0
    THEN Outcome(self, realloc, Unit)
    ELSE IF len(other) = 1
    THEN Outcome(self, Some(<<fixed_two(self.vals[1], get(other, 0))>>), Unit)
    ELSE IF len(other) < BUFFER_INLINE_MAX
    THEN LET buffer == [idx \in 1..len(other) |-> get(other, idx - 1)]
         IN  Outcome(self, Some(<<Buffer_from(buffer)>>), Unit)
    ELSE Outcome(self, Some(<<One_box_clone(self), other>>), Unit)

\* One::concat copying the operand over 1..=len instead of 0..len.
One_concat_off_by_one(self, other, realloc) ==
    IF len(other) = 0
    THEN Outcome(self, realloc, Unit)
    ELSE IF len(other) = 1
    THEN Outcome(self, Some(<<fixed_two(self.vals[1], get(other, 0))>>), Unit)
    ELSE IF len(other) < BUFFER_INLINE_MAX
    THEN LET buffer == <<self.vals[1]>> \o
                       [idx \in 1..len(other) |-> get(other, idx)]
         IN  Outcome(self, Some(<<Buffer_from(buffer)>>), Unit)
    ELSE Outcome(self, Some(<<One_box_clone(self), other>>), Unit)

\* One::concat without the early return for an empty operand.
One_concat_no_early_return(self, other, realloc) ==
    IF len(other) = 1
    THEN Outcome(self, Some(<<fixed_two(self.vals[1], get(other, 0))>>), Unit)
    ELSE IF len(other) < BUFFER_INLINE_MAX
    THEN LET buffer == <<self.vals[1]>> \o
                       [idx \in 1..len(other) |-> get(other, idx - 1)]
         IN  Outcome(self, Some(<<Buffer_from(buffer)>>), Unit)
    ELSE Outcome(self, Some(<<One_box_clone(self), other>>), Unit)

\* One::concat building the Two for a one-element operand in the wrong order.
One_concat_two_swapped(self, other, realloc) ==
    IF len(other) = 0
    THEN Outcome(self, realloc, Unit)
    ELSE IF len(other) = 1
    THEN Outcome(self, Some(<<fixed_two(get(other, 0), self.vals[1])>>), Unit)
    ELSE IF len(other) < BUFFER_INLINE_MAX
    THEN LET buffer == <<self.vals[1]>> \o
                       [idx \in 1..len(other) |-> get(other, idx - 1)]
         IN  Outcome(self, Some(<<Buffer_from(buffer)>>), Unit)
    ELSE Outcome(self, Some(<<One_box_clone(self), other>>), Unit)

\* One::concat assigning realloc before the operand has been read through.
One_concat_publish_early(self, other, realloc) ==
    IF len(other) = 0
    THEN Outcome(self, realloc, Unit)
    ELSE IF len(other) = 1
    THEN IF get(other, 0) = GetErr
         THEN Outcome(self, realloc, Failed)
         ELSE Outcome(self,
                      Some(<<fixed_two(self.vals[1], get(other, 0))>>), Unit)
    ELSE IF len(other) < BUFFER_INLINE_MAX
    THEN LET buffer == <<self.vals[1]>> \o
                       [idx \in 1..len(other) |-> get(other, idx - 1)]
         IN  IF \E idx \in 0..(len(other) - 1) : get(other, idx) = GetErr
             THEN Outcome(self, Some(<<Buffer_from(<<self.vals[1]>>)>>), Failed)
             ELSE Outcome(self, Some(<<Buffer_from(buffer)>>), Unit)
    ELSE Outcome(self, Some(<<One_box_clone(self), other>>), Unit)

\* One::concat.  Each other.get(..)? returns the operand's Err from concat
\* before *realloc is assigned.
One_concat(self, other, realloc) ==
    IF len(other) = 0
    THEN Outcome(self, realloc, Unit)
    ELSE IF len(other) = 1
    THEN IF get(other, 0) = GetErr
         THEN Outcome(self, realloc, Failed)
         ELSE Outcome(self,
                      Some(<<fixed_two(self.vals[1], get(other, 0))>>), Unit)
    ELSE IF len(other) < BUFFER_INLINE_MAX
    THEN LET buffer == <<self.vals[1]>> \o
                       [idx \in 1..len(other) |-> get(other, idx - 1)]
         IN  IF \E idx \in 0..(len(other) - 1) : get(other, idx) = GetErr
             THEN Outcome(self, realloc, Failed)
             ELSE Outcome(self, Some(<<Buffer_from(buffer)>>), Unit)
    ELSE Outcome(self, Some(<<One_box_clone(self), other>>), Unit)

\* ------------------------------------------- the other representations
\* set on an Empty: the value itself at index 0, else a Hole of `index`
\* slots before it.
Empty_set(self, index, elem, realloc) ==
    IF index = 0
    THEN Outcome(self, Some(<<fixed_one(elem)>>), Unit)
    ELSE Outcome(self, Some(<<fixed_hole(index), fixed_one(elem)>>), Unit)

\* set on a Two: in place inside its shape, else [self, Hole(gap), One(new)]
\* with gap = index - len().
Two_set(self, index, elem, realloc) ==
    IF index = 0
    THEN Outcome(fixed_two(elem, self.vals[2]), realloc, Unit)
    ELSE IF index = 1
    THEN Outcome(fixed_two(self.vals[1], elem), realloc, Unit)
    ELSE Outcome(self,
                 Some(<<self, fixed_hole(index - 2), fixed_one(elem)>>),
                 Unit)

\* pop on a Chunked whose last child is a One: the child's pop gives the
\* value and the child's replacement takes its place.
Chunked_pop(self, realloc) ==
    LET k == Len(self.kids)
        out == One_pop(self.kids[k], None)
    IN  Outcome(self,
                Some(<<Chunked(SubSeq(self.kids, 1, k - 1) \o out.realloc.list)>>),
                out.ret)

\* reverse() of a boxed segment, by representation.
RECURSIVE reverse(_)
reverse(s) ==
    CASE s.tag = "Empty" -> fixed_empty
      [] s.tag = "One" -> One_reverse(s)
      [] s.tag = "Two" -> fixed_two(s.vals[2], s.vals[1])
      [] s.tag = "Hole" -> s
      [] s.tag = "Buffer" ->
            Buffer_from([i \in 1..Len(s.vals) |-> s.vals[Len(s.vals) + 1 - i]])
      [] s.tag = "Chunked" ->
            Chunked([i \in 1..Len(s.kids) |->
                        reverse(s.kids[Len(s.kids) + 1 - i])])

\* ------------------------------------------------------------------- owner
\* The substitution wrapping every replacement list in a Chunked.
reallocate_always_wrap(self, realloc) ==
    IF ~realloc.some THEN self ELSE Chunked(realloc.list)

\* The owner substitutes its root by the replacement list: a single element
\* becomes the root itself, two or more are wrapped in a Chunked; without a
\* list the (possibly mutated) segment stays.
reallocate(self, realloc) ==
    IF ~realloc.some THEN self
    ELSE IF Len(realloc.list) = 1 THEN realloc.list[1]
    ELSE Chunked(realloc.list)

\* ---------------------------------------------------------------- operands
\* Sequences over S of length 0..k.
SeqUpTo(S, k) == UNION {[1..m -> S] : m \in 0..k}

\* The handles held by operands.
OperandValues == {"a", "b"}

\* The segments handed to set_slice and concat as `with` / `other`.
Operands ==
    {fixed_empty}
    \cup {fixed_one(v) : v \in OperandValues}
    \cup {fixed_two(v, w) : v \in OperandValues, w \in OperandValues}
    \cup {fixed_hole(k) : k \in 0..MaxHole}
    \cup {Buffer_from(b) : b \in SeqUpTo(OperandValues, MaxBuf)}
    \cup {Chunked(<<fixed_one(v), fixed_hole(k)>>) :
              v \in OperandValues, k \in 1..MaxHole}
    \cup {Chunked(<<fixed_hole(1), fixed_two(v, w)>>) :
              v \in OperandValues, w \in OperandValues}

\* Operands whose get fails at one position or more.
FailingOperands ==
    {Failing(f) : f \in {g \in UNION {[1..m -> OperandValues \cup {GetErr}] :
                                        m \in 1..BUFFER_INLINE_MAX} :
                            \E i \in DOMAIN g : g[i] = GetErr}}

\* =========================================================== Regexp backends
\* The Onig and RegexUtf8 implementations of RegexpType, and the interpreter
\* state they write: active_regexp_globals and the match globals.

MaxHay == 1         \* longest haystack, in characters
MaxCaptures == 2    \* largest captures.len(), group 0 included
IntBits == 3        \* width of Int

\* A str is the sequence of its chars; "a" encodes to one byte of UTF-8 and
\* "U" stands for a char that encodes to two.
Chars == {"a", "U"}

len_utf8(c) == IF c = "a" THEN 1 ELSE 2

\* "X" stands for a byte sequence that is not UTF-8.
Haystacks == SeqUpTo(Chars, MaxHay) \cup {<<"X">>}

\* str::from_utf8(pattern).is_ok()
from_utf8(bytes) == \A k \in DOMAIN bytes : bytes[k] # "X"

Int_MIN == 0 - 2 ^ (IntBits - 1)

Int_MAX == 2 ^ (IntBits - 1) - 1

\* The values of pos: Option<Int>.
Positions == {None} \cup {Some(<<i>>) : i \in Int_MIN..Int_MAX}

\* -x in two's complement of IntBits bits, as a build without overflow checks
\* computes it.
wrapping_neg(x) ==
    LET r == (0 - x) % (2 ^ IntBits)
    IN  IF r > Int_MAX THEN r - 2 ^ IntBits ELSE r

\* s.chars().take(n)
chars_take(s, n) == SubSeq(s, 1, IF n < Len(s) THEN n ELSE Len(s))

\* s.len(): the length in bytes.
RECURSIVE str_len(_)
str_len(s) == IF s = <<>> THEN 0 ELSE len_utf8(Head(s)) + str_len(Tail(s))

\* pattern.chars().take(pos).map(char::len_utf8).sum()
byte_offset(s, pos) == str_len(chars_take(s, pos))

is_char_boundary(s, b) == \E k \in 0..Len(s) : byte_offset(s, k) = b

char_index(s, b) == CHOOSE k \in 0..Len(s) : byte_offset(s, k) = b

\* &s[from..to] is defined when both ends are char boundaries in order;
\* any other range panics.
str_slice_ok(s, from, to) ==
    from <= to /\ is_char_boundary(s, from) /\ is_char_boundary(s, to)

str_slice(s, from, to) == SubSeq(s, char_index(s, from) + 1, char_index(s, to))

\* Ruby values written by interp.convert and MatchData::try_into_ruby.
RNil == [class |-> "NilClass"]

RString(s) == [class |-> "String", bytes |-> s]

RBool(b) == [class |-> IF b THEN "TrueClass" ELSE "FalseClass"]

RFixnum(i) == [class |-> "Integer", int |-> i]

RMatchData(string, start, end) ==
    [class |-> "MatchData", string |-> string, region |-> <<start, end>>]

\* interp.convert(Option<&str>)
convert(opt) == IF opt.some THEN RString(opt.list) ELSE RNil

\* What the engine may answer on match_target: no match, or the byte ranges
\* of the groups, group 0 (the whole match) first; a group that did not
\* participate has no range, and a participating group lies inside group 0.
Ranges(t) ==
    {<<byte_offset(t, p[1]), byte_offset(t, p[2])>> :
        p \in {q \in (0..Len(t)) \X (0..Len(t)) : q[1] <= q[2]}}

Captures(t) ==
    UNION {{c \in [1..L -> {None} \cup {Some(r) : r \in Ranges(t)}] :
                /\ c[1].some
                /\ \A k \in 2..L :
                     c[k].some => /\ c[1].list[1] <= c[k].list[1]
                                  /\ c[k].list[2] <= c[1].list[2]} :
           L \in 1..MaxCaptures}

Engine(t) == {None} \cup {Some(c) : c \in Captures(t)}

\* regex.find(t): no match, or the range of the whole match alone.
Find(t) == {c \in Engine(t) : c.some => Len(c.list) = 1}

\* captures.pos(group) / captures.get(group): None past the last group.
captures_pos(c, group) == IF group < Len(c) THEN c[group + 1] ELSE None

\* captures.at(group) / captures.get(group).map(as_str): the text of a group.
captures_at(t, c, group) ==
    LET p == captures_pos(c, group)
    IN  IF p.some THEN Some(str_slice(t, p.list[1], p.list[2])) ELSE None

\* The interpreter state the backends read and write.
Interp(active, named, numbered) ==
    [active_regexp_globals |-> active, gv |-> named, gv_num |-> numbered]

\* The globals of a fresh interpreter: all unset, which reads as nil.
\* "$PREMATCH" and "$POSTMATCH" name the globals spelled $ backtick and
\* $ apostrophe.
interpreter_gv == [g \in {"$&", "$PREMATCH", "$POSTMATCH", "$~"} |-> RNil]

interpreter_gv_num == [g \in 1..MaxCaptures |-> RNil]

\* What a call hands back: Ok(value), Err(exception) or a panic.
Ok(st, value) == [st |-> st, kind |-> "Ok", value |-> value]

Err(st, exception) == [st |-> st, kind |-> "Err", value |-> exception]

Panic(st) == [st |-> st, kind |-> "panic", value |-> RNil]

\* The position arithmetic shared by is_match and match_.  The result is
\* "at" with the resolved char position, "miss" for the early return of
\* false / nil, "Fatal" for the mapped conversion error, or "panic".
\* overflow_checks tells whether the build traps on integer overflow.
start_pos(haystack, pos, overflow_checks) ==
    LET pattern_char_len == Len(haystack)
        p0 == IF pos.some THEN pos.list[1] ELSE 0
        at(p) == IF p > pattern_char_len
                 THEN [kind |-> "miss", pos |-> 0]
                 ELSE [kind |-> "at", pos |-> p]
    IN  IF p0 < 0
        THEN IF p0 = Int_MIN /\ overflow_checks
             THEN [kind |-> "panic", pos |-> 0]
             ELSE LET neg == wrapping_neg(p0)
                  IN  IF neg < 0
                      THEN [kind |-> "Fatal", pos |-> 0]
                      ELSE IF neg <= pattern_char_len
                           THEN at(pattern_char_len - neg)
                           ELSE [kind |-> "miss", pos |-> 0]
        ELSE at(p0)

\* The `$&`, `$1`.. loop of Onig: group N goes to $N.
Onig_globals(st, t, c) ==
    LET globals_to_set == IF st.active_regexp_globals > Len(c)
                          THEN st.active_regexp_globals ELSE Len(c)
    IN  [st EXCEPT
            !.gv["$&"] = convert(captures_at(t, c, 0)),
            !.gv_num = [g \in DOMAIN @ |->
                          IF g <= globals_to_set
                          THEN convert(captures_at(t, c, g)) ELSE @[g]],
            !.active_regexp_globals = Len(c)]

\* The same loop of RegexUtf8: every $N is written from captures.get(0).
RegexUtf8_globals(st, t, c) ==
    LET globals_to_set == IF st.active_regexp_globals > Len(c)
                          THEN st.active_regexp_globals ELSE Len(c)
    IN  [st EXCEPT
            !.gv["$&"] = convert(captures_at(t, c, 0)),
            !.gv_num = [g \in DOMAIN @ |->
                          IF g <= globals_to_set
                          THEN convert(captures_at(t, c, 0)) ELSE @[g]],
            !.active_regexp_globals = Len(c)]

set_globals(backend, st, t, c) ==
    IF backend = "Onig" THEN Onig_globals(st, t, c)
    ELSE RegexUtf8_globals(st, t, c)

\* $PREMATCH and $POSTMATCH from the range of group 0 in t, when it has one.
pre_post(st, t, c) ==
    LET match_pos == captures_pos(c, 0)
    IN  IF match_pos.some
        THEN [st EXCEPT
                !.gv["$PREMATCH"] = RString(str_slice(t, 0, match_pos.list[1])),
                !.gv["$POSTMATCH"] = RString(str_slice(t, match_pos.list[2],
                                               str_len(t)))]
        ELSE st

ArgumentError == [class |-> "ArgumentError"]

Fatal == [class |-> "Fatal"]

\* case_match(pattern) with the engine answering `captures`.
case_match(backend, st, pattern, captures) ==
    IF ~from_utf8(pattern) THEN Err(st, ArgumentError)
    ELSE IF captures.some
    THEN LET c == captures.list
             st1 == pre_post(set_globals(backend, st, pattern, c), pattern, c)
             matchdata == RMatchData(pattern, 0, str_len(pattern))
         IN  Ok([st1 EXCEPT !.gv["$~"] = matchdata], RBool(TRUE))
    ELSE Ok([st EXCEPT !.gv["$PREMATCH"] = RNil, !.gv["$POSTMATCH"] = RNil], RBool(FALSE))

\* &pattern[byte_offset..] is a valid slice.
target_ok(pattern, pos) ==
    str_slice_ok(pattern, byte_offset(pattern, pos), str_len(pattern))

\* The suffix is_match and match_ hand to the engine.
match_target(pattern, pos) ==
    str_slice(pattern, byte_offset(pattern, pos), str_len(pattern))

\* is_match(pattern, pos); `found` is the engine's find on the suffix.
is_match(backend, st, pattern, pos, found, overflow_checks) ==
    IF ~from_utf8(pattern) THEN Err(st, ArgumentError)
    ELSE LET r == start_pos(pattern, pos, overflow_checks)
         IN  CASE r.kind = "panic" -> Panic(st)
               [] r.kind = "Fatal" -> Err(st, Fatal)
               [] r.kind = "miss" -> Ok(st, RBool(FALSE))
               [] r.kind = "at" /\ ~target_ok(pattern, r.pos) -> Panic(st)
               [] OTHER -> Ok(st, RBool(found))

\* match_(pattern, pos, block) with the engine answering `captures` on the
\* suffix; a block is the value it yields, or Fatal when the yield fails.
match_(backend, st, pattern, pos, block, captures, overflow_checks) ==
    IF ~from_utf8(pattern) THEN Err(st, ArgumentError)
    ELSE LET r == start_pos(pattern, pos, overflow_checks)
         IN  CASE r.kind = "panic" -> Panic(st)
               [] r.kind = "Fatal" -> Err(st, Fatal)
               [] r.kind = "miss" -> Ok(st, RNil)
               [] r.kind = "at" /\ ~target_ok(pattern, r.pos) -> Panic(st)
               [] OTHER ->
                    IF captures.some
                    THEN LET c == captures.list
                             offset == byte_offset(pattern, r.pos)
                             t == match_target(pattern, r.pos)
                             st1 == pre_post(set_globals(backend, st, t, c),
                                             t, c)
                             match_pos == captures_pos(c, 0)
                             data ==
                                 IF match_pos.some
                                 THEN RMatchData(pattern,
                                                 offset + match_pos.list[1],
                                                 offset + match_pos.list[2])
                                 ELSE RMatchData(pattern, 0, str_len(pattern))
                             st2 == [st1 EXCEPT !.gv["$~"] = data]
                         IN  IF block.some
                             THEN IF block.list[1] = Fatal
                                  THEN Err(st2, Fatal)
                                  ELSE Ok(st2, block.list[1])
                             ELSE Ok(st2, data)
                    ELSE Ok([st EXCEPT !.gv["$~"] = RNil, !.gv["$PREMATCH"] = RNil,
                                       !.gv["$POSTMATCH"] = RNil], RNil)

\* match_operator(pattern) with the engine answering `captures`.
match_operator(backend, st, pattern, captures) ==
    IF ~from_utf8(pattern) THEN Err(st, ArgumentError)
    ELSE IF captures.some
    THEN LET c == captures.list
             st1 == set_globals(backend, st, pattern, c)
             st2 == [st1 EXCEPT
                       !.gv["$~"] = RMatchData(pattern, 0, str_len(pattern))]
             match_pos == captures_pos(c, 0)
         IN  IF match_pos.some
             THEN IF match_pos.list[1] > Int_MAX
                  THEN Err(pre_post(st2, pattern, c), Fatal)
                  ELSE Ok(pre_post(st2, pattern, c),
                          RFixnum(match_pos.list[1]))
             ELSE Ok(st2, RFixnum(0))
    ELSE Ok([st EXCEPT !.gv["$~"] = RNil, !.gv["$PREMATCH"] = RNil,
                       !.gv["$POSTMATCH"] = RNil], RNil)

\* The values a block given to match_ may yield.
Blocks == {None, Some(<<RBool(TRUE)>>), Some(<<Fatal>>)}

\* ------------------------------------------------------------------- state
VARIABLES root,     \* the owner's boxed segment
          self0,    \* the root the last call was made on
          call,     \* the last call: [op, index, drain, elem, other]
          realloc,  \* the realloc out-parameter after the last call
          ret,      \* the value inside the Ok the last call returned
          seg,      \* the segment the last slice or reverse returned
          marked,   \* the handles the last gc_mark passed to mark_value
          self1,    \* the called segment itself after the last call
          clone,    \* a box_clone() of the root One, followed until the
                    \* owner replaces that root
          active_regexp_globals,  \* the interpreter's count of live $N
          gv,       \* the globals $&, $~, $PREMATCH and $POSTMATCH
          gv_num,   \* the numbered globals: gv_num[N] is $N
          rcall,    \* the Regexp backend call that has just run, with its
                    \* inputs, until the caller takes its result
          rret      \* what that call returned

avars == <<root, self0, call, realloc, ret, seg, marked, self1, clone>>

rvars == <<active_regexp_globals, gv, gv_num, rcall, rret>>

vars == <<root, self0, call, realloc, ret, seg, marked, self1, clone,
          active_regexp_globals, gv, gv_num, rcall, rret>>

Call(op, index, drain, elem, other) ==
    [op |-> op, index |-> index, drain |-> drain, elem |-> elem, other |-> other]

\* The owner runs `out` = the segment call made with a fresh realloc = None,
\* then substitutes its root.
Apply(c, out) ==
    /\ self0' = root
    /\ call' = c
    /\ realloc' = out.realloc
    /\ ret' = out.ret
    /\ seg' = fixed_empty
    /\ marked' = <<>>
    /\ self1' = out.self
    /\ clone' = IF out.realloc.some THEN fixed_empty ELSE clone
    /\ root' = reallocate(out.self, out.realloc)
    /\ UNCHANGED rvars

\* A call of a `&self` method: it takes no realloc out-parameter and the
\* owner keeps its root.
Probe(c, r, s, m) ==
    /\ self0' = root
    /\ call' = c
    /\ realloc' = None
    /\ ret' = r
    /\ seg' = s
    /\ marked' = m
    /\ self1' = root
    /\ clone' = clone
    /\ root' = root
    /\ UNCHANGED rvars

\* No backend call is in progress: the caller has taken the last result.
NoCall ==
    [backend |-> "none", op |-> "none", pattern |-> <<>>, pos |-> None,
     block |-> None, target |-> None, captures |-> None,
     overflow_checks |-> FALSE, active0 |-> 0]

NoRet == [kind |-> "none", value |-> RNil]

RCall(backend, op, pattern, pos, block, target, captures, checks) ==
    [backend |-> backend, op |-> op, pattern |-> pattern, pos |-> pos,
     block |-> block, target |-> target, captures |-> captures,
     overflow_checks |-> checks, active0 |-> active_regexp_globals]

\* A fresh interpreter: no regexp global is live or set.
interpreter ==
    /\ active_regexp_globals = 0
    /\ gv = interpreter_gv
    /\ gv_num = interpreter_gv_num
    /\ rcall = NoCall
    /\ rret = NoRet

Init ==
    /\ root \in {One_new(v) : v \in Values}
    /\ self0 = root
    /\ call = Call("new", 0, 0, root.vals[1], fixed_empty)
    /\ realloc = None
    /\ ret = Unit
    /\ seg = fixed_empty
    /\ marked = <<>>
    /\ self1 = root
    /\ clone = fixed_empty
    /\ interpreter

\* A fresh owner around One::new(elem).
New ==
    \E elem \in Values :
        /\ root' = One_new(elem)
        /\ self0' = One_new(elem)
        /\ call' = Call("new", 0, 0, elem, fixed_empty)
        /\ realloc' = None
        /\ ret' = Unit
        /\ seg' = fixed_empty
        /\ marked' = <<>>
        /\ self1' = One_new(elem)
        /\ clone' = fixed_empty
        /\ UNCHANGED rvars

Set ==
    /\ root.tag = "One"
    /\ \E index \in 0..MaxIndex, elem \in Values :
        Apply(Call("set", index, 0, elem, fixed_empty),
              One_set(root, index, elem, None))

SetWithDrain ==
    /\ root.tag = "One"
    /\ \E start \in 0..MaxIndex, drain \in 0..MaxDrain, with \in Values :
        Apply(Call("set_with_drain", start, drain, with, fixed_empty),
              One_set_with_drain(root, start, drain, with, None))

SetSlice ==
    /\ root.tag = "One"
    /\ \E start \in 0..MaxIndex, drain \in 0..MaxDrain, with \in Operands :
        Apply(Call("set_slice", start, drain, Nil, with),
              One_set_slice(root, start, drain, with, None))

Concat ==
    /\ root.tag = "One"
    /\ \E other \in Operands :
        Apply(Call("concat", 0, 0, Nil, other),
              One_concat(root, other, None))

\* concat with an operand whose get fails; no representation of the data
\* model is one, so the call is kept apart from Concat.
ConcatFailing ==
    /\ root.tag = "One"
    /\ \E other \in FailingOperands :
        Apply(Call("concat_failing", 0, 0, Nil, other),
              One_concat(root, other, None))

Pop ==
    /\ root.tag = "One"
    /\ Apply(Call("pop", 0, 0, Nil, fixed_empty), One_pop(root, None))

Get ==
    /\ root.tag = "One"
    /\ \E index \in 0..MaxIndex :
        Probe(Call("get", index, 0, Nil, fixed_empty),
              Val(One_get(root, index)), fixed_empty, <<>>)

\* The call record carries slice's len argument in its drain field.
Slice ==
    /\ root.tag = "One"
    /\ \E start \in 0..MaxIndex, length \in 0..MaxDrain :
        Probe(Call("slice", start, length, Nil, fixed_empty),
              Unit, One_slice(root, start, length), <<>>)

Reverse ==
    /\ root.tag = "One"
    /\ Probe(Call("reverse", 0, 0, Nil, fixed_empty),
             Unit, One_reverse(root), <<>>)

GcMark ==
    /\ root.tag = "One"
    /\ Probe(Call("gc_mark", 0, 0, Nil, fixed_empty),
             Unit, fixed_empty, One_gc_mark(root))

\* A fresh, empty owner.
NewEmpty ==
    /\ root' = fixed_empty
    /\ self0' = fixed_empty
    /\ call' = Call("new_empty", 0, 0, Nil, fixed_empty)
    /\ realloc' = None
    /\ ret' = Unit
    /\ seg' = fixed_empty
    /\ marked' = <<>>
    /\ self1' = fixed_empty
    /\ clone' = fixed_empty
    /\ UNCHANGED rvars

\* The calls below reach the root through the same owner methods as Set,
\* Pop and Reverse; the call record names the representation that answers.
SetEmpty ==
    /\ root.tag = "Empty"
    /\ \E index \in 0..MaxIndex, elem \in Values :
        Apply(Call("empty_set", index, 0, elem, fixed_empty),
              Empty_set(root, index, elem, None))

SetTwo ==
    /\ root.tag = "Two"
    /\ \E index \in 0..MaxIndex, elem \in Values :
        Apply(Call("two_set", index, 0, elem, fixed_empty),
              Two_set(root, index, elem, None))

PopChunked ==
    /\ root.tag = "Chunked"
    /\ root.kids # <<>>
    /\ root.kids[Len(root.kids)].tag = "One"
    /\ Apply(Call("chunked_pop", 0, 0, Nil, fixed_empty),
             Chunked_pop(root, None))

ReverseRoot ==
    /\ root.tag # "One"
    /\ ~HasFailing(root)
    /\ Probe(Call("root_reverse", 0, 0, Nil, fixed_empty),
             Unit, reverse(root), <<>>)

\* The owner's gc_mark on a root that is no longer a One.
RootGcMark ==
    /\ root.tag # "One"
    /\ ~HasFailing(root)
    /\ Probe(Call("root_gc_mark", 0, 0, Nil, fixed_empty),
             Unit, fixed_empty, gc_mark(root))

\* c = s.box_clone() of the root One.
BoxClone ==
    /\ root.tag = "One"
    /\ self0' = root
    /\ call' = Call("box_clone", 0, 0, Nil, fixed_empty)
    /\ realloc' = None
    /\ ret' = Unit
    /\ seg' = fixed_empty
    /\ marked' = <<>>
    /\ self1' = root
    /\ clone' = One_box_clone(root)
    /\ root' = root
    /\ UNCHANGED rvars

\* A call on the clone that writes it in place.
OnClone(c, out) ==
    /\ self0' = clone
    /\ call' = c
    /\ realloc' = out.realloc
    /\ ret' = out.ret
    /\ seg' = fixed_empty
    /\ marked' = <<>>
    /\ self1' = out.self
    /\ clone' = out.self
    /\ root' = root
    /\ UNCHANGED rvars

CloneSet ==
    /\ clone.tag = "One"
    /\ \E elem \in Values :
        OnClone(Call("clone_set", 0, 0, elem, fixed_empty),
                One_set(clone, 0, elem, None))

CloneSetWithDrain ==
    /\ clone.tag = "One"
    /\ \E drain \in 1..MaxDrain, with \in Values :
        OnClone(Call("clone_set_with_drain", 0, drain, with, fixed_empty),
                One_set_with_drain(clone, 0, drain, with, None))

Next ==
    \/ New \/ Set \/ SetWithDrain \/ SetSlice \/ Concat
    \/ Pop \/ Get \/ Slice \/ Reverse \/ GcMark
    \/ ConcatFailing \/ RootGcMark \/ BoxClone \/ CloneSet \/ CloneSetWithDrain
    \/ NewEmpty \/ SetEmpty \/ SetTwo \/ PopChunked \/ ReverseRoot

Spec == Init /\ [][Next]_vars

\* ----------------------------------------------------------- Regexp actions
Backends == {"Onig", "RegexUtf8"}

\* A backend call `c` with outcome `out` on the interpreter.
Step(c, out) ==
    /\ active_regexp_globals' = out.st.active_regexp_globals
    /\ gv' = out.st.gv
    /\ gv_num' = out.st.gv_num
    /\ rcall' = c
    /\ rret' = [kind |-> out.kind, value |-> out.value]
    /\ UNCHANGED avars

\* The interpreter as the next call finds it.
Current == Interp(active_regexp_globals, gv, gv_num)

\* The caller is between two backend calls.
Idle == rcall = NoCall

\* A panic ends the process; a new interpreter starts afresh.
NewInterp ==
    /\ Idle \/ rret.kind = "panic"
    /\ active_regexp_globals' = 0
    /\ gv' = interpreter_gv
    /\ gv_num' = interpreter_gv_num
    /\ rcall' = NoCall
    /\ rret' = NoRet
    /\ UNCHANGED avars

\* The caller takes the Result of the call; the interpreter keeps its state.
Return ==
    /\ ~Idle
    /\ rret.kind # "panic"
    /\ rcall' = NoCall
    /\ rret' = NoRet
    /\ UNCHANGED <<active_regexp_globals, gv, gv_num>>
    /\ UNCHANGED avars

CaseMatch ==
    /\ Idle
    /\ \E backend \in Backends, pattern \in Haystacks :
        \E captures \in (IF from_utf8(pattern) THEN Engine(pattern)
                         ELSE {None}) :
            Step(RCall(backend, "case_match", pattern, None, None,
                       IF from_utf8(pattern) THEN Some(pattern) ELSE None,
                       captures, FALSE),
                 case_match(backend, Current, pattern, captures))

MatchOperator ==
    /\ Idle
    /\ \E backend \in Backends, pattern \in Haystacks :
        \E captures \in (IF from_utf8(pattern) THEN Engine(pattern)
                         ELSE {None}) :
            Step(RCall(backend, "match_operator", pattern, None, None,
                       IF from_utf8(pattern) THEN Some(pattern) ELSE None,
                       captures, FALSE),
                 match_operator(backend, Current, pattern, captures))

\* Whether the build traps on integer overflow.  The two kinds of build
\* differ in one step only, the negation of the minimum Int; for any other
\* pos one build stands for both.
Builds(pos) ==
    IF pos.some /\ pos.list[1] = Int_MIN THEN BOOLEAN ELSE {FALSE}

\* Whether a call with these inputs gets as far as the engine.
RunsEngine(pattern, pos, checks) ==
    /\ from_utf8(pattern)
    /\ start_pos(pattern, pos, checks).kind = "at"
    /\ target_ok(pattern, start_pos(pattern, pos, checks).pos)

\* The suffix the engine is run on, when it is run.
Target(pattern, pos, checks) ==
    IF RunsEngine(pattern, pos, checks)
    THEN Some(match_target(pattern, start_pos(pattern, pos, checks).pos))
    ELSE None

IsMatch ==
    /\ Idle
    /\ \E backend \in Backends, pattern \in Haystacks, pos \in Positions :
        \E checks \in Builds(pos) :
        LET target == Target(pattern, pos, checks)
        IN  \E captures \in (IF target.some THEN Find(target.list)
                             ELSE {None}) :
                Step(RCall(backend, "is_match", pattern, pos, None, target,
                           captures, checks),
                     is_match(backend, Current, pattern, pos, captures.some,
                              checks))

Match ==
    /\ Idle
    /\ \E backend \in Backends, pattern \in Haystacks, pos \in Positions,
          block \in Blocks :
        \E checks \in Builds(pos) :
        LET target == Target(pattern, pos, checks)
        IN  \E captures \in (IF target.some THEN Engine(target.list)
                             ELSE {None}) :
                Step(RCall(backend, "match_", pattern, pos, block, target,
                           captures, checks),
                     match_(backend, Current, pattern, pos, block, captures,
                            checks))

NextRegexp ==
    \/ NewInterp \/ CaseMatch \/ MatchOperator \/ IsMatch \/ Match
    \/ Return

InitRegexp == Init /\ root = One_new("a")

SpecRegexp == InitRegexp /\ [][NextRegexp]_vars

\* ------------------------------------------------------------- observations
Min(a, b) == IF a < b THEN a ELSE b

\* What an observer reads through get at 0..len()-1.
Elems(s) == [i \in 1..len(s) |-> get(s, i - 1)]

\* The elements of seq from 0-based position `from` on.
From(seq, from) == SubSeq(seq, from + 1, Len(seq))

\* Out-parameter values a caller of a segment may pass in.
ReallocIns ==
    {None, Some(<<fixed_empty>>), Some(<<fixed_hole(1), fixed_one("a")>>)}

\* ------------------------------------------------------------------ claims

\* C1: after concat(other) on a One-rooted owner, and after the owner has
\* applied the replacement list (or kept its root), the owner's length is
\* 1 + other.len(), in each of the four branches.
C1_ConcatLength ==
    call.op = "concat" => len(root) = len(self0) + len(call.other)

C1_Witness ==
    /\ call.op = "concat"
    /\ len(call.other) >= BUFFER_INLINE_MAX
    /\ root = Chunked(<<self0, call.other>>)
    /\ len(root) = 1 + len(call.other)

\* C2: after One(v).concat(other) the owner reads v at 0, other.get(i-1) at
\* 1 <= i <= other.len() and nil beyond, whichever representation was chosen;
\* a Buffer result holds v followed by other's values in order.
C2_ConcatObservable ==
    call.op = "concat" =>
        /\ \A i \in 0..(len(call.other) + 2) :
              get(root, i) =
                  IF i = 0 THEN self0.vals[1]
                  ELSE IF i <= len(call.other) THEN get(call.other, i - 1)
                  ELSE Nil
        /\ root.tag = "Buffer" =>
              root.vals = <<self0.vals[1]>> \o Elems(call.other)

C2_Witness ==
    /\ call.op = "concat"
    /\ root.tag = "Buffer"
    /\ call.other.tag = "Chunked"
    /\ root.vals = <<self0.vals[1]>> \o Elems(call.other)
    /\ get(root, 1) # Nil

\* C3: a Buffer replacement of One::concat implies 1 + other.len() <
\* BUFFER_INLINE_MAX, and an operand with other.len() >= 2 and
\* 1 + other.len() >= BUFFER_INLINE_MAX is answered with exactly [self, other].
C3_BufferBelowThreshold ==
    call.op = "concat" =>
        /\ (realloc.some /\ Len(realloc.list) = 1
              /\ realloc.list[1].tag = "Buffer")
             => 1 + len(call.other) < BUFFER_INLINE_MAX
        /\ (len(call.other) >= 2 /\ 1 + len(call.other) >= BUFFER_INLINE_MAX)
             => realloc = Some(<<self0, call.other>>)

\* C4: set_with_drain(start, drain, value) on a One-rooted owner (L = 1) with
\* start <= 1 returns drained = min(drain, L - start) for any drain, and the
\* owner's length afterwards is L - drained + 1.
C4_DrainAccounting ==
    (call.op = "set_with_drain" /\ call.index <= len(self0)) =>
        /\ ret.n = Min(call.drain, len(self0) - call.index)
        /\ len(root) = len(self0) - ret.n + 1

C4_Witness ==
    /\ call.op = "set_with_drain"
    /\ call.index = 0
    /\ call.drain > 1
    /\ ret.n = 1
    /\ len(root) = 1

\* C5: for One(v) and start <= 1 the owner's contents after
\* set_with_drain(start, drain, value) are old[0..start) ++ [value] ++
\* old[start+drained..): [value, v] for a prepend, [value] written in place
\* without a replacement list for start = 0 with drain > 0, [v, value] for an
\* append.
C5_SpliceContents ==
    (call.op = "set_with_drain" /\ call.index <= len(self0)) =>
        LET old == Elems(self0)
            start == call.index
            drained == Min(call.drain, Len(old) - start)
        IN  /\ Elems(root) =
                  SubSeq(old, 1, start) \o <<call.elem>>
                      \o From(old, start + drained)
            /\ (start = 0 /\ call.drain = 0)
                  => Elems(root) = <<call.elem, self0.vals[1]>>
            /\ (start = 0 /\ call.drain > 0)
                  => Elems(root) = <<call.elem>> /\ ~realloc.some
            /\ start = 1 => Elems(root) = <<self0.vals[1], call.elem>>

C5_Witness ==
    /\ call.op = "set_with_drain"
    /\ call.index = 0
    /\ call.drain = 0
    /\ call.elem # self0.vals[1]
    /\ Elems(root) = <<call.elem, self0.vals[1]>>

\* C6: for One(v), start <= 1, any drain and any segment other,
\* set_slice(start, drain, other) returns drained = min(drain, 1 - start) and
\* always a replacement list: [other, self] for a prepend, [other] for
\* start = 0 with drain > 0, [self, other] for start = 1; its contents are
\* old[0..start) ++ other ++ old[start+drained..) and the owner's length is
\* 1 - drained + other.len().
C6_SetSlice ==
    (call.op = "set_slice" /\ call.index <= len(self0)) =>
        LET old == Elems(self0)
            start == call.index
            other == call.other
            drained == Min(call.drain, Len(old) - start)
        IN  /\ ret.n = drained
            /\ realloc.some
            /\ (start = 0 /\ call.drain = 0) => realloc.list = <<other, self0>>
            /\ (start = 0 /\ call.drain > 0) => realloc.list = <<other>>
            /\ start = 1 => realloc.list = <<self0, other>>
            /\ Elems(Chunked(realloc.list)) =
                  SubSeq(old, 1, start) \o Elems(other)
                      \o From(old, start + drained)
            /\ Elems(root) = Elems(Chunked(realloc.list))
            /\ len(root) = 1 - drained + len(other)

C6_Witness ==
    /\ call.op = "set_slice"
    /\ call.index = 0
    /\ call.drain > 1
    /\ len(call.other) >= 2
    /\ ret.n = 1
    /\ root = call.other

\* C7: set(k, value) with k beyond the length of a One (k >= 2) yields the
\* replacement list [self, Hole(k - 1), One(value)]; afterwards the owner has
\* len() = k + 1, get(k) = value, get(j) = nil for 1 <= j < k and get(0)
\* unchanged.
C7_SetGap ==
    (call.op = "set" /\ call.index >= 2) =>
        LET k == call.index
            L == len(self0)
        IN  /\ realloc =
                  Some(<<self0, fixed_hole(k - L), fixed_one(call.elem)>>)
            /\ len(root) = k + 1
            /\ get(root, k) = call.elem
            /\ \A j \in L..(k - 1) : get(root, j) = Nil
            /\ \A j \in 0..(L - 1) : get(root, j) = get(self0, j)

C7_Witness ==
    /\ call.op = "set"
    /\ call.index >= 3
    /\ len(root) = call.index + 1
    /\ get(root, call.index) = call.elem
    /\ get(root, 2) = Nil

\* C8: set(1, new) on a One holding old yields the one-element replacement
\* list [Two(old, new)]; the owner then has length 2, get(0) = old and
\* get(1) = new.
C8_SetOne ==
    (call.op = "set" /\ call.index = 1) =>
        /\ realloc = Some(<<fixed_two(self0.vals[1], call.elem)>>)
        /\ len(root) = 2
        /\ get(root, 0) = self0.vals[1]
        /\ get(root, 1) = call.elem

C8_Witness ==
    /\ call.op = "set"
    /\ call.index = 1
    /\ call.elem # self0.vals[1]
    /\ root = fixed_two(self0.vals[1], call.elem)

\* C9: One::set(0, value) replaces the held value in place, leaves the
\* realloc out-parameter exactly as the caller passed it, and keeps
\* len() = 1 with get(0) = value.
C9_SetInPlace ==
    /\ (call.op = "set" /\ call.index = 0) =>
          /\ realloc = None
          /\ root.tag = "One"
          /\ len(root) = 1
          /\ get(root, 0) = call.elem
    /\ root.tag = "One" =>
          \A rin \in ReallocIns, value \in Values :
              LET out == One_set(root, 0, value, rin)
              IN  /\ out.realloc = rin
                  /\ len(out.self) = 1
                  /\ get(out.self, 0) = value

C9_Witness ==
    /\ call.op = "set"
    /\ call.index = 0
    /\ call.elem # self0.vals[1]
    /\ realloc = None
    /\ root = fixed_one(call.elem)

\* C10: for a One and every start > 1, set_with_drain(start, drain, value)
\* returns drained = 0 with [self, Hole(start - 1), One(value)] (owner length
\* start + 1) and set_slice(start, drain, other) returns drained = 0 with
\* [self, Hole(start - 1), other] (owner length start + other.len()); every
\* index j with 1 <= j < start reads nil.
C10_SplicePastEnd ==
    /\ (call.op = "set_with_drain" /\ call.index > 1) =>
          /\ ret.n = 0
          /\ realloc = Some(<<self0, fixed_hole(call.index - 1),
                              fixed_one(call.elem)>>)
          /\ len(root) = call.index + 1
          /\ \A j \in 1..(call.index - 1) : get(root, j) = Nil
    /\ (call.op = "set_slice" /\ call.index > 1) =>
          /\ ret.n = 0
          /\ realloc = Some(<<self0, fixed_hole(call.index - 1), call.other>>)
          /\ len(root) = call.index + len(call.other)
          /\ \A j \in 1..(call.index - 1) : get(root, j) = Nil

C10_Witness ==
    /\ call.op = "set_slice"
    /\ call.index > 2
    /\ call.drain > 0
    /\ len(call.other) >= 2
    /\ ret.n = 0
    /\ root = Chunked(<<self0, fixed_hole(call.index - 1), call.other>>)
    /\ get(root, call.index) = get(call.other, 0)
    /\ get(root, call.index) # Nil

\* C11: One(v).pop() returns v and sets the replacement list to [Empty]; the
\* owner afterwards has length 0 and get(i) is nil for every i.
C11_Pop ==
    call.op = "pop" =>
        /\ ret.v = self0.vals[1]
        /\ realloc = Some(<<fixed_empty>>)
        /\ len(root) = 0
        /\ \A i \in 0..MaxIndex : get(root, i) = Nil

C11_Witness ==
    /\ call.op = "pop"
    /\ self0 = fixed_one("b")
    /\ ret.v = "b"
    /\ root = fixed_empty

\* C12: for One(v), get(0) = v and get(i) is nil for every i >= 1, i.e. the
\* element at index when index < len() and nil otherwise; every index gets
\* a value, and get does not change the segment.
C12_Get ==
    call.op = "get" =>
        /\ ret.v = IF call.index < len(self0) THEN Elems(self0)[call.index + 1]
                   ELSE Nil
        /\ call.index = 0 => ret.v = self0.vals[1]
        /\ call.index >= 1 => ret.v = Nil
        /\ ret.v \in Values \cup {Nil}
        /\ root = self0
        /\ ~realloc.some

C12_Witness ==
    /\ call.op = "get"
    /\ call.index = MaxIndex
    /\ ret.v = Nil
    /\ root = self0
    /\ root.tag = "One"

\* C13: slice(start, length) of a One returns a segment of length
\* min(length, len() - start), Empty when start >= len() or length = 0, with
\* slice(start, length).get(i) = self.get(start + i) below that length, so
\* S.slice(i, 1).get(0) = S.get(i) for i < S.len(); slice(0, n) with n > 0 is
\* a one-element segment holding v, every other slice is Empty, and self is
\* unchanged.
C13_Slice ==
    call.op = "slice" =>
        LET start == call.index
            length == call.drain
        IN  /\ len(seg) = IF start >= len(self0) \/ length = 0 THEN 0
                          ELSE Min(length, len(self0) - start)
            /\ (start >= len(self0) \/ length = 0) => seg = fixed_empty
            /\ \A i \in 0..(len(seg) - 1) : get(seg, i) = get(self0, start + i)
            /\ (start < len(self0) /\ length = 1)
                  => get(seg, 0) = get(self0, start)
            /\ (start = 0 /\ length > 0) => seg = fixed_one(self0.vals[1])
            /\ root = self0

C13_Witness ==
    /\ call.op = "slice"
    /\ call.index = 0
    /\ call.drain > 1
    /\ seg = fixed_one(self0.vals[1])
    /\ root = self0

\* C14: reverse of a One returns a segment with the same len() and
\* reverse().get(i) = get(len() - 1 - i) for every valid i, a clone holding
\* the same value, and does not mutate the One.
C14_Reverse ==
    call.op = "reverse" =>
        /\ len(seg) = len(self0)
        /\ \A i \in 0..(len(self0) - 1) :
              get(seg, i) = get(self0, len(self0) - 1 - i)
        /\ seg = fixed_one(self0.vals[1])
        /\ root = self0

C14_Witness ==
    /\ call.op = "reverse"
    /\ seg = fixed_one("a")
    /\ root = fixed_one("a")

\* C15: for every other with other.len() = 0, One::concat(other) leaves the
\* held value and the realloc out-parameter unchanged; the owner keeps the
\* same root and length 1.
C15_ConcatEmpty ==
    /\ (call.op = "concat" /\ len(call.other) = 0) =>
          /\ realloc = None
          /\ root = self0
          /\ len(root) = 1
    /\ root.tag = "One" =>
          \A rin \in ReallocIns, other \in Operands :
              len(other) = 0 =>
                  /\ One_concat(root, other, rin).realloc = rin
                  /\ One_concat(root, other, rin).self = root

C15_Witness ==
    /\ call.op = "concat"
    /\ call.other = fixed_hole(0)
    /\ realloc = None
    /\ root = self0
    /\ root.tag = "One"

\* C16: for every other with other.len() = 1, One(x).concat(other) yields
\* the one-element replacement list [Two(x, other.get(0))]; One(x) concat
\* One(y) gives an owner of length 2 with get(0) = x and get(1) = y.
C16_ConcatOne ==
    (call.op = "concat" /\ len(call.other) = 1) =>
        /\ realloc = Some(<<fixed_two(self0.vals[1], get(call.other, 0))>>)
        /\ len(root) = 2
        /\ get(root, 0) = self0.vals[1]
        /\ get(root, 1) = get(call.other, 0)
        /\ call.other.tag = "One" => get(root, 1) = call.other.vals[1]

C16_Witness ==
    /\ call.op = "concat"
    /\ self0 = fixed_one("a")
    /\ call.other = fixed_one("b")
    /\ len(root) = 2
    /\ get(root, 0) = "a"
    /\ get(root, 1) = "b"

\* The operations of One that take the realloc out-parameter.
MutOps == {"set", "set_with_drain", "set_slice", "concat", "pop"}

\* The summed length of the first j segments of cs.
RECURSIVE PrefixLen(_, _)
PrefixLen(cs, j) == IF j = 0 THEN 0 ELSE PrefixLen(cs, j - 1) + len(cs[j])

\* C17: after any operation on a One-rooted owner, without a replacement
\* list the root is the same (possibly in-place mutated) One; a list of
\* exactly one element becomes the root as the bare element, never a Chunked
\* wrapping it; a list of two or more elements becomes a Chunked of exactly
\* those elements in order.
C17_OwnerTransition ==
    call.op \in MutOps =>
        /\ ~realloc.some =>
              /\ root.tag = "One"
              /\ root = self0 \/ root = fixed_one(call.elem)
        /\ (realloc.some /\ Len(realloc.list) = 1) =>
              /\ root = realloc.list[1]
              /\ root # Chunked(realloc.list)
        /\ (realloc.some /\ Len(realloc.list) >= 2) =>
              /\ root.tag = "Chunked"
              /\ root.kids = realloc.list

C17_Witness ==
    /\ call.op = "set_slice"
    /\ call.index = 0
    /\ call.drain > 0
    /\ realloc.some
    /\ Len(realloc.list) = 1
    /\ root = call.other
    /\ root.tag = "Buffer"

\* C18: whenever an operation of One sets the realloc out-parameter, the
\* list holds at least one segment; pop, which shrinks to nothing, produces
\* [Empty].
C18_NoEmptyList ==
    /\ realloc.some => Len(realloc.list) >= 1
    /\ call.op = "pop" => realloc = Some(<<fixed_empty>>)

C18_Witness ==
    /\ call.op = "pop"
    /\ realloc.some
    /\ Len(realloc.list) = 1
    /\ realloc.list[1] = fixed_empty

\* C19: a Chunked root built from a replacement list c1..cn has len() equal
\* to the sum of the children's lengths, and get(i) is cj.get(i - (len(c1) +
\* ... + len(c(j-1)))) for the child cj whose cumulative-length interval
\* contains i, and nil for i at or beyond the total length.
C19_ChunkedIndex ==
    (realloc.some /\ Len(realloc.list) >= 2) =>
        LET cs == realloc.list
            total == PrefixLen(cs, Len(cs))
        IN  /\ len(root) = total
            /\ \A i \in 0..(total + 1) :
                  IF i >= total THEN get(root, i) = Nil
                  ELSE \E j \in 1..Len(cs) :
                          /\ PrefixLen(cs, j - 1) <= i
                          /\ i < PrefixLen(cs, j)
                          /\ get(root, i) =
                                get(cs[j], i - PrefixLen(cs, j - 1))

C19_Witness ==
    /\ call.op = "set"
    /\ call.index = 3
    /\ root = Chunked(<<self0, fixed_hole(2), fixed_one(call.elem)>>)
    /\ len(root) = 4
    /\ get(root, 3) = call.elem
    /\ get(root, 4) = Nil

\* C20: One::gc_mark calls mark exactly once, on the value the One holds at
\* that time (the latest value after an in-place set or set_with_drain), and
\* on nothing else; the number of mark calls equals real_children().
C20_GcMark ==
    [][call'.op = "gc_mark" =>
          /\ marked' = <<root.vals[1]>>
          /\ Len(marked') = One_real_children(root)
          /\ root' = root
          /\ (call.op = "set" /\ call.index = 0) => marked' = <<call.elem>>
          /\ (call.op = "set_with_drain" /\ call.index = 0 /\ call.drain > 0)
                => marked' = <<call.elem>>]_vars

C20_Witness ==
    /\ call.op = "gc_mark"
    /\ root = fixed_one("b")
    /\ marked = <<"b">>
    /\ Len(marked) = One_real_children(root)

\* C21: a One, after any sequence of its operations including the in-place
\* set(0, _) and set_with_drain(0, drain > 0, _), has len() = 1,
\* real_children() = 1 and is_empty() = false, holding exactly one handle;
\* is_empty() is true exactly when len() = 0.
C21_OneShape ==
    root.tag = "One" =>
        /\ One_len(root) = 1
        /\ One_real_children(root) = 1
        /\ One_real_children(root) = Len(root.vals)
        /\ One_is_empty(root) = FALSE
        /\ One_is_empty(root) <=> (One_len(root) = 0)

C21_Witness ==
    /\ call.op = "set_with_drain"
    /\ call.index = 0
    /\ call.drain > 0
    /\ root.tag = "One"
    /\ root # self0
    /\ One_len(root) = 1

\* C25: every call of set, set_with_drain, set_slice, concat or pop on a One
\* either changes the held value and leaves the realloc out-parameter
\* untouched, or sets the replacement list and leaves the held value of the
\* called One unchanged, or does neither (concat with an empty operand);
\* no call does both.
C25_InPlaceOrReplace ==
    call.op \in MutOps =>
        /\ ~(self1 # self0 /\ realloc.some)
        /\ realloc.some => self1 = self0
        /\ self1 # self0 => (realloc = None /\ self1.tag = "One")
        /\ (call.op = "concat" /\ len(call.other) = 0)
              => (self1 = self0 /\ realloc = None)

C25_Witness ==
    /\ call.op = "set_with_drain"
    /\ call.index = 0
    /\ call.drain > 0
    /\ self1 # self0
    /\ realloc = None

\* C28: set, set_with_drain and set_slice of a One create a Hole only for an
\* index or start >= 2, of size index - 1 or start - 1, hence of at least one
\* slot; a call at index or start 0 or 1 puts no Hole of its own into the
\* replacement list.
C28_HoleSize ==
    (call.op \in {"set", "set_with_drain", "set_slice"} /\ realloc.some) =>
        /\ call.index >= 2 =>
              /\ Len(realloc.list) = 3
              /\ realloc.list[2] = fixed_hole(call.index - 1)
              /\ realloc.list[2].n >= 1
        /\ call.index <= 1 =>
              \A j \in 1..Len(realloc.list) :
                  realloc.list[j].tag = "Hole" =>
                      (call.op = "set_slice" /\ realloc.list[j] = call.other)

C28_Witness ==
    /\ call.op = "set_slice"
    /\ call.index = 2
    /\ call.other.tag = "Two"
    /\ realloc.list[2] = fixed_hole(1)

\* Whether concat reads the operand: it does for 1 <= other.len() <
\* BUFFER_INLINE_MAX.
ConcatReads(other) == len(other) >= 1 /\ len(other) < BUFFER_INLINE_MAX

\* C27: if reading an element of the operand fails during One::concat, in
\* the one-element or the Buffer branch, concat returns that error and
\* neither the held value nor the realloc out-parameter has been changed.
C27_ConcatError ==
    /\ (call.op = "concat_failing" /\ ConcatReads(call.other)) =>
          /\ ret.v = GetErr
          /\ self1 = self0
          /\ realloc = None
          /\ root = self0
    /\ root.tag = "One" =>
          \A rin \in ReallocIns, other \in FailingOperands :
              ConcatReads(other) =>
                  /\ One_concat(root, other, rin).ret.v = GetErr
                  /\ One_concat(root, other, rin).realloc = rin
                  /\ One_concat(root, other, rin).self = root

C27_Witness ==
    /\ call.op = "concat_failing"
    /\ call.other = Failing(<<"a", "b", GetErr>>)
    /\ ret.v = GetErr
    /\ realloc = None
    /\ root = self0

\* The non-nil members of a sequence of handles.
NonNil(seq) == {seq[i] : i \in DOMAIN seq} \ {Nil}

\* C22: for every index, start and drain, get, slice, set, set_with_drain,
\* set_slice, pop and reverse on a One return Ok and no Hole size is computed
\* by an underflowing index - 1 or start - 1; concat returns Ok whenever the
\* gets it makes on the operand return Ok.
C22_Totality ==
    /\ call.op \in {"get", "slice", "set", "set_with_drain", "set_slice",
                    "pop", "reverse", "concat"} => ret.v # GetErr
    /\ (call.op \in MutOps /\ realloc.some) =>
          \A j \in 1..Len(realloc.list) :
              realloc.list[j].tag = "Hole" => realloc.list[j].n >= 0
    /\ call.op \in {"slice", "reverse"} => seg.tag \in {"Empty", "One"}
    /\ (call.op = "concat_failing" /\ ret.v = GetErr) =>
          /\ ConcatReads(call.other)
          /\ \E idx \in 0..(len(call.other) - 1) :
                get(call.other, idx) = GetErr

C22_Witness ==
    /\ call.op = "set_with_drain"
    /\ call.index = MaxIndex
    /\ call.drain = MaxDrain
    /\ ret.v # GetErr
    /\ realloc.list[2] = fixed_hole(MaxIndex - 1)

\* C24: right after c = s.box_clone() of a One, c.get(0) = s.get(0); an
\* in-place mutation of c (set(0, w), set_with_drain(0, drain > 0, w))
\* leaves s.get(0) and s.len() unchanged, and an in-place mutation of s
\* leaves c unchanged.
C24_CloneIndependent ==
    [][/\ call'.op = "box_clone" =>
             /\ clone'.tag = "One"
             /\ get(clone', 0) = get(root, 0)
             /\ len(clone') = len(root)
             /\ root' = root
       /\ call'.op \in {"clone_set", "clone_set_with_drain"} =>
             /\ get(clone', 0) = call'.elem
             /\ ~realloc'.some
             /\ root' = root
             /\ get(root', 0) = get(root, 0)
             /\ len(root') = len(root)
       /\ (call'.op \in {"set", "set_with_drain"} /\ ~realloc'.some) =>
             /\ get(root', 0) = call'.elem
             /\ clone' = clone]_vars

C24_Witness ==
    /\ call.op = "clone_set"
    /\ root.tag = "One"
    /\ clone.tag = "One"
    /\ get(clone, 0) = "b"
    /\ get(root, 0) = "a"

C23_Scenario ==
    /\ (call.op = "empty_set" /\ self0 = fixed_empty
          /\ call.index = 0 /\ call.elem = "a") =>
          /\ root.tag = "One"
          /\ len(root) = 1
          /\ get(root, 0) = "a"
    /\ (call.op = "set" /\ Elems(self0) = <<"a">>
          /\ call.index = 1 /\ call.elem = "b") =>
          /\ root.tag = "Two"
          /\ len(root) = 2
          /\ get(root, 0) = "a"
          /\ get(root, 1) = "b"
    /\ (call.op = "two_set" /\ Elems(self0) = <<"a", "b">>
          /\ call.index = 5 /\ call.elem = "c") =>
          /\ root.tag = "Chunked"
          /\ root.kids[Len(root.kids)].tag = "One"
          /\ len(root) = 6
          /\ Elems(root) = <<"a", "b", Nil, Nil, Nil, "c">>
    /\ (call.op = "chunked_pop"
          /\ Elems(self0) = <<"a", "b", Nil, Nil, Nil, "c">>) =>
          /\ ret.v = "c"
          /\ root.tag # "One"
          /\ len(root) = 5
          /\ Elems(root) = <<"a", "b", Nil, Nil, Nil>>
    /\ (call.op = "root_reverse"
          /\ Elems(self0) = <<"a", "b", Nil, Nil, Nil>>) =>
          /\ get(seg, 0) = get(self0, 4)
          /\ get(seg, 0) = Nil
          /\ len(seg) = 5

C23_Witness ==
    /\ call.op = "root_reverse"
    /\ self0 =
          Chunked(<<fixed_two("a", "b"), fixed_hole(3), fixed_empty>>)
    /\ get(seg, 0) = Nil
    /\ get(seg, 4) = "a"

\* The text of group N of captures c found in t, as the Ruby value a global
\* holds: nil for a group that did not participate or does not exist.
GroupValue(t, c, N) ==
    IF N < Len(c) /\ c[N + 1].some
    THEN RString(str_slice(t, c[N + 1].list[1], c[N + 1].list[2]))
    ELSE RNil

\* The calls that write the match globals, when the engine found a match.
Matched ==
    /\ rcall.op \in {"case_match", "match_", "match_operator"}
    /\ rcall.captures.some

\* C29: after a successful case_match, match_ or match_operator of either
\* backend, $N holds the N-th capture group of this match (nil when it did
\* not participate or does not exist) for every N from 1 to
\* max(previous active_regexp_globals, captures.len()), $& holds the whole
\* match, and active_regexp_globals is captures.len().
C29_NumberedGlobals ==
    Matched =>
        LET c == rcall.captures.list
            t == rcall.target.list
            top == IF rcall.active0 > Len(c) THEN rcall.active0 ELSE Len(c)
        IN  /\ \A N \in 1..top : gv_num[N] = GroupValue(t, c, N)
            /\ gv["$&"] = GroupValue(t, c, 0)
            /\ active_regexp_globals = Len(c)

\* The start position a call was given, None read as 0.
GivenPos == IF rcall.pos.some THEN rcall.pos.list[1] ELSE 0

\* C30: is_match and match_ on a haystack of n characters never panic; a
\* pos > n or pos < -n, the minimum Int included, yields false (is_match) or
\* nil (match_) without running the engine; any other pos is resolved to
\* pos, or n + pos when negative, and the engine runs on the suffix that
\* starts at that character.
C30_StartPosition ==
    (rcall.op \in {"is_match", "match_"} /\ from_utf8(rcall.pattern)) =>
        LET n == Len(rcall.pattern)
            p == GivenPos
            q == IF p < 0 THEN n + p ELSE p
        IN  /\ rret.kind # "panic"
            /\ (p > n \/ p < 0 - n) =>
                  /\ ~rcall.target.some
                  /\ rret.kind = "Ok"
                  /\ rret.value = IF rcall.op = "is_match"
                                  THEN RBool(FALSE) ELSE RNil
            /\ (0 - n <= p /\ p <= n) =>
                  rcall.target = Some(SubSeq(rcall.pattern, q + 1, n))

============================================================================
